---- MODULE Spec2Model ----
(***************************************************************************)
(* The application data store of medtracker2 (AppProvider in               *)
(* src/index.tsx): the in-memory UserDataBundle (healthData, medications,  *)
(* standardPattern), its mutation handlers, the 2-second debounced save    *)
(* (saveDataToJsonbin), the initial load (loadDataFromBin), the calendar's *)
(* "has data" marker, TIME_SLOTS and the day form (DataInputForm).         *)
(*                                                                         *)
(* JavaScript values are represented as follows.                           *)
(*   string            a TLA+ string; its UTF-16 code units, which         *)
(*                     Array.prototype.sort compares, are CodeUnits(s)     *)
(*   number | null     <<n>> for the number n, <<>> for null               *)
(*   array             a sequence                                          *)
(*   object            the sequence of its own properties, in insertion    *)
(*                     order, each a record [k |-> key, v |-> value]       *)
(*   parsed JSON       [t |-> kind, v |-> payload] (see Json)              *)
(***************************************************************************)
EXTENDS Integers, Sequences, FiniteSets, TLC

VARIABLES
    healthData,       \* useState<HealthData>
    medications,      \* useState<string[]>
    standardPattern,  \* useState<StandardPattern>
    jsType,           \* run-time kind of the three values above
    isAuthenticated,  \* useLocalStorage('health_app_auth')
    isDataLoading,    \* useState(false)
    isSaving,         \* useState(false)
    fetches,          \* GET requests of loadInitialUserData in flight
    timeouts,         \* the browser's pending setTimeout callbacks
    saveDataTimeout,  \* useRef<number | null>: what the id it holds refers to
    puts,             \* bodies of the PUT requests in flight, oldest first
    remote,           \* the document held by the bin: <<>> or <<bundle>>
    sinceSave,        \* history: ms since saveDataToJsonbin was last called
    lastPut,          \* history: <<>> or <<body of the PUT issued by the last step>>
    burst,            \* history: saves scheduled and PUTs issued since the store was last idle
    lastOp,           \* history: the handler the last step ran, and its arguments
    selectedDate,     \* prop of the mounted DataInputForm: <<date>>, or <<>> with none mounted
    dailyData,        \* useState<DailyData> of the mounted DataInputForm
    closure,          \* the medications the handlers of the last render closed over
    chart,            \* what the mounted DataDisplay shows: <<>> with none mounted
    staleFetches      \* how many of the GETs in flight were issued before the last logout

vars == <<healthData, medications, standardPattern, jsType, isAuthenticated,
          isDataLoading, isSaving, fetches, timeouts, saveDataTimeout, puts,
          remote, sinceSave, lastPut, burst, lastOp, selectedDate, dailyData,
          closure, chart, staleFetches>>

-----------------------------------------------------------------------------
(* Strings and Array.prototype.sort                                        *)

MedicinaA == "Medicina A"
MedicinaB == "Medicina B"
Aspirin   == "Aspirin"

\* The medication names the model draws handler arguments from.
Names == {Aspirin, MedicinaA, MedicinaB}

\* UTF-16 code units of the strings that get sorted.
CodeUnits(s) ==
    CASE s = "Aspirin"    -> <<65, 115, 112, 105, 114, 105, 110>>
      [] s = "Medicina A" -> <<77, 101, 100, 105, 99, 105, 110, 97, 32, 65>>
      [] s = "Medicina B" -> <<77, 101, 100, 105, 99, 105, 110, 97, 32, 66>>

RECURSIVE UnitsLess(_, _)
\* a < b on sequences of code units: the first differing unit decides, a
\* proper prefix is smaller.
UnitsLess(a, b) ==
    IF b = <<>> THEN FALSE
    ELSE IF a = <<>> THEN TRUE
    ELSE IF Head(a) # Head(b) THEN Head(a) < Head(b)
    ELSE UnitsLess(Tail(a), Tail(b))

\* The default comparison of Array.prototype.sort: x sorts before y.
StrLess(x, y) == UnitsLess(CodeUnits(x), CodeUnits(y))

RECURSIVE InsertSorted(_, _)
\* x placed after every element that is not greater (stable).
InsertSorted(s, x) ==
    IF s = <<>> THEN <<x>>
    ELSE IF StrLess(x, Head(s)) THEN <<x>> \o s
    ELSE <<Head(s)>> \o InsertSorted(Tail(s), x)

RECURSIVE SortStrings(_)
\* Array.prototype.sort() without a comparator, on an array of strings.
SortStrings(s) ==
    IF s = <<>> THEN <<>>
    ELSE InsertSorted(SortStrings(SubSeq(s, 1, Len(s) - 1)), s[Len(s)])

\* arr.includes(x)
Includes(arr, x) == \E i \in DOMAIN arr : arr[i] = x

\* arr.map(m => m === oldMed ? newMed : m)
MapRename(arr, oldMed, newMed) ==
    [i \in DOMAIN arr |-> IF arr[i] = oldMed THEN newMed ELSE arr[i]]

\* arr.filter(m => m !== medToDelete)
FilterOut(arr, medToDelete) ==
    LET Keep(m) == m # medToDelete IN SelectSeq(arr, Keep)

-----------------------------------------------------------------------------
(* Objects                                                                 *)

Keys(obj) == {obj[i].k : i \in DOMAIN obj}

HasKey(obj, key) == key \in Keys(obj)

\* obj[key], for a key the object has.
Get(obj, key) == obj[CHOOSE i \in DOMAIN obj : obj[i].k = key].v

\* { ...obj, [key]: value }: an own key keeps its place, a new key goes last.
SpreadSet(obj, key, value) ==
    IF HasKey(obj, key)
    THEN [i \in DOMAIN obj |-> IF obj[i].k = key THEN [k |-> key, v |-> value] ELSE obj[i]]
    ELSE Append(obj, [k |-> key, v |-> value])

Null == <<>>
Num(n) == <<n>>

\* One TimeSlotData.
Slot(value, meds, comments) ==
    [value |-> value, medications |-> meds, comments |-> comments]

-----------------------------------------------------------------------------
(* Defaults (AppProvider)                                                  *)

defaultHealthData == <<>>
defaultMedications == <<MedicinaA, MedicinaB>>
defaultStandardPattern == <<>>

WellTyped == [healthData |-> "object", medications |-> "array", standardPattern |-> "object"]

\* The in-memory bundle: what dataRef.current holds after the render that
\* follows a handler, and what handleExport serialises.
Bundle ==
    [healthData |-> healthData, medications |-> medications,
     standardPattern |-> standardPattern, jsType |-> jsType]

defaultUserDataBundle ==
    [healthData |-> defaultHealthData, medications |-> defaultMedications,
     standardPattern |-> defaultStandardPattern, jsType |-> WellTyped]

-----------------------------------------------------------------------------
(* The state updaters of the mutation handlers                             *)

RECURSIVE MergeInto(_, _)
\* { ...a, ...b }
MergeInto(a, b) ==
    IF b = <<>> THEN a ELSE MergeInto(SpreadSet(a, b[1].k, b[1].v), Tail(b))

\* Variant: the new record is merged into the day's previous record,
\* { ...prev, [date]: { ...prev[date], ...data } }.
updateHealthDataMerging(prev, date, data) ==
    SpreadSet(prev, date, IF HasKey(prev, date) THEN MergeInto(Get(prev, date), data) ELSE data)

\* setHealthData(prev => ({ ...prev, [date]: data }))
updateHealthDataUpdater(prev, date, data) == SpreadSet(prev, date, data)

\* setMedications(prev => [...prev, med].sort())
addMedicationUpdater(prev, med) == SortStrings(Append(prev, med))

\* Variant: the list of a slot is sorted after the renaming, as the catalog is.
RenameInSlotSorted(slot, oldMed, newMed) ==
    [slot EXCEPT !.medications = SortStrings(MapRename(@, oldMed, newMed))]

\* { ...slot, medications: slot.medications.map(...) }
RenameInSlot(slot, oldMed, newMed) ==
    [slot EXCEPT !.medications = MapRename(@, oldMed, newMed)]

\* Object.entries(daily).reduce(...) of editMedication
RenameInDay(daily, oldMed, newMed) ==
    [j \in DOMAIN daily |->
        [k |-> daily[j].k, v |-> RenameInSlot(daily[j].v, oldMed, newMed)]]

\* setHealthData(prev => Object.entries(prev).reduce(...)) of editMedication
editHealthDataUpdater(prev, oldMed, newMed) ==
    [i \in DOMAIN prev |->
        [k |-> prev[i].k, v |-> RenameInDay(prev[i].v, oldMed, newMed)]]

\* Variant: the pattern is left as it was.
editStandardPatternKeeping(prev, oldMed, newMed) == prev

\* setStandardPattern(prev => Object.entries(prev).reduce(...)) of editMedication
editStandardPatternUpdater(prev, oldMed, newMed) ==
    [i \in DOMAIN prev |->
        [k |-> prev[i].k, v |-> MapRename(prev[i].v, oldMed, newMed)]]

\* setMedications(prev => prev.map(m => (m === oldMed ? newMed : m)).sort())
editMedicationsUpdater(prev, oldMed, newMed) ==
    SortStrings(MapRename(prev, oldMed, newMed))

\* { ...slot, medications: slot.medications.filter(...) }
DeleteInSlot(slot, medToDelete) ==
    [slot EXCEPT !.medications = FilterOut(@, medToDelete)]

\* Object.entries(daily).reduce(...) of deleteMedication
DeleteInDay(daily, medToDelete) ==
    [j \in DOMAIN daily |->
        [k |-> daily[j].k, v |-> DeleteInSlot(daily[j].v, medToDelete)]]

\* setHealthData(prev => Object.entries(prev).reduce(...)) of deleteMedication
deleteHealthDataUpdater(prev, medToDelete) ==
    [i \in DOMAIN prev |->
        [k |-> prev[i].k, v |-> DeleteInDay(prev[i].v, medToDelete)]]

\* Variant: every slot is kept, also one whose filtered list is empty.
deleteStandardPatternKeepingEmpty(prev, medToDelete) ==
    [i \in DOMAIN prev |-> [k |-> prev[i].k, v |-> FilterOut(prev[i].v, medToDelete)]]

\* setStandardPattern(prev => ...): a slot is kept only if filtered.length > 0
deleteStandardPatternUpdater(prev, medToDelete) ==
    LET filtered == [i \in DOMAIN prev |->
                        [k |-> prev[i].k, v |-> FilterOut(prev[i].v, medToDelete)]]
        Kept(e) == Len(e.v) > 0
    IN  SelectSeq(filtered, Kept)

\* setMedications(prev => prev.filter(m => m !== medToDelete))
deleteMedicationsUpdater(prev, medToDelete) == FilterOut(prev, medToDelete)

-----------------------------------------------------------------------------
(* The calendar's marker                                                   *)

\* Variant: d.value tested for truth instead of != null, so that 0 counts
\* as no value.
SlotHasDataTruthyValue(d) ==
    \/ d.value # Null /\ d.value # Num(0)
    \/ Len(d.medications) > 0
    \/ d.comments # ""

\* d.value != null || d.medications?.length > 0 || d.comments, as a truth value
SlotHasData(d) ==
    \/ d.value # Null
    \/ Len(d.medications) > 0
    \/ d.comments # ""

\* const dayData = healthData[dayFormatted];
\* hasData = dayData && Object.values(dayData).some(d => d && (...)), as a
\* truth value (undefined when the date has no record)
hasData(hd, dayFormatted) ==
    /\ HasKey(hd, dayFormatted)
    /\ LET dayData == Get(hd, dayFormatted)
       IN  \E j \in DOMAIN dayData : SlotHasData(dayData[j].v)

-----------------------------------------------------------------------------
(* TIME_SLOTS and the state of DataInputForm                               *)

\* s.padStart(n, fill), for a fill of one character.
RECURSIVE padStart(_, _, _)
padStart(s, n, fill) == IF Len(s) < n THEN padStart(fill \o s, n, fill) ELSE s

\* The labels pushed by the iterations h, h + 1, ... of the loop
\* for (let h = 8; h < 24; h++).
RECURSIVE TimeSlotsFrom(_)
TimeSlotsFrom(h) ==
    IF h < 24
    THEN <<padStart(ToString(h), 2, "0") \o ":00">>
         \o (IF h < 23 THEN <<padStart(ToString(h), 2, "0") \o ":30">> ELSE <<>>)
         \o TimeSlotsFrom(h + 1)
    ELSE <<>>

TIME_SLOTS == TimeSlotsFrom(8)

defaultTimeSlotData == Slot(Null, <<>>, "")

\* createInitialData(): one empty entry per label, in the order of TIME_SLOTS.
createInitialData ==
    [i \in DOMAIN TIME_SLOTS |-> [k |-> TIME_SLOTS[i], v |-> defaultTimeSlotData]]

\* The effect on [selectedDate, healthData]: the grid, with the stored entry
\* of every label the stored record of the date has.
fullData(hd, date) ==
    [i \in DOMAIN createInitialData |->
        IF HasKey(hd, date) /\ HasKey(Get(hd, date), TIME_SLOTS[i])
        THEN [k |-> TIME_SLOTS[i], v |-> Get(Get(hd, date), TIME_SLOTS[i])]
        ELSE createInitialData[i]]

\* Array.from(new Set(arr)): the first occurrence of every element, in order.
RECURSIVE ArrayFromSet(_)
ArrayFromSet(arr) ==
    IF arr = <<>> THEN <<>>
    ELSE LET front == ArrayFromSet(SubSeq(arr, 1, Len(arr) - 1))
             last == arr[Len(arr)]
         IN  IF Includes(front, last) THEN front ELSE Append(front, last)

\* Variant: the medications of the pattern take the place of those of the slot.
applyStandardPatternReplacing(prev, pattern) ==
    [i \in DOMAIN prev |->
        IF HasKey(pattern, prev[i].k)
        THEN [prev[i] EXCEPT !.v.medications = Get(pattern, prev[i].k)]
        ELSE prev[i]]

\* The updater of applyStandardPattern: every label of the pattern that the
\* grid has gets the medications of both, each once.
applyStandardPatternUpdater(prev, pattern) ==
    [i \in DOMAIN prev |->
        IF HasKey(pattern, prev[i].k)
        THEN [prev[i] EXCEPT !.v.medications = ArrayFromSet(@ \o Get(pattern, prev[i].k))]
        ELSE prev[i]]

\* What a step does to a mounted form: after setHealthData with a new
\* object the effect loads the form again; otherwise the form is untouched.
FormEffect(healthDataSet) ==
    /\ selectedDate' = selectedDate
    /\ dailyData' = IF selectedDate # <<>> /\ healthDataSet
                    THEN fullData(healthData', selectedDate[1])
                    ELSE dailyData

\* The form is not on the screen.
FormUnmounted == selectedDate' = <<>> /\ dailyData' = <<>>

-----------------------------------------------------------------------------
(* DataDisplay: the chart of a day and its markers                         *)

\* Object.entries(dailyData).map(...).sort((a, b) => a.time.localeCompare(b.time)):
\* the labels are zero-padded times, which compare as they follow one another
\* in TIME_SLOTS.
chartData(hd, date) ==
    IF HasKey(hd, date)
    THEN LET daily == Get(hd, date)
             ByTime(label) == SelectSeq(daily, LAMBDA e : e.k = label)
             RECURSIVE Sorted(_)
             Sorted(i) == IF i > Len(TIME_SLOTS) THEN <<>>
                          ELSE ByTime(TIME_SLOTS[i]) \o Sorted(i + 1)
         IN  Sorted(1)
    ELSE <<>>

Violet == "#8B5CF6"
Green == "#10B981"
Orange == "#F97316"

\* Variant: a slot with medications is green whether or not it has a comment.
markerColorMedicationFirst(p) ==
    IF p.value = Null THEN <<>>
    ELSE LET hasMeds == Len(p.medications) > 0
             hasComments == p.comments # ""
         IN  IF hasMeds THEN <<Green>>
             ELSE IF hasComments THEN <<Orange>>
             ELSE <<>>

\* The callback of chartData.map in the chart: <<fill>> of the ReferenceDot
\* it returns, <<>> where it returns null.
markerColor(p) ==
    IF p.value = Null THEN <<>>
    ELSE LET hasMeds == Len(p.medications) > 0
             hasComments == p.comments # ""
         IN  IF hasMeds /\ hasComments THEN <<Violet>>
             ELSE IF hasMeds THEN <<Green>>
             ELSE IF hasComments THEN <<Orange>>
             ELSE <<>>

\* What DataDisplay returns for a date: the notice that the day has no data,
\* the list of medications and comments of a day without numbers, or the
\* chart, with the marker of each point.
DataDisplay(hd, date) ==
    LET data == chartData(hd, date)
    IN  IF \/ data = <<>>
           \/ \A i \in DOMAIN data :
                 /\ data[i].v.value = Null
                 /\ Len(data[i].v.medications) = 0
                 /\ data[i].v.comments = ""
        THEN [selectedDate |-> date, view |-> "No hay datos", dots |-> <<>>]
        ELSE IF \A i \in DOMAIN data : data[i].v.value = Null
        THEN [selectedDate |-> date, view |-> "list", dots |-> <<>>]
        ELSE [selectedDate |-> date, view |-> "chart",
              dots |-> [i \in DOMAIN data |->
                          [time |-> data[i].k, fill |-> markerColor(data[i].v)]]]

-----------------------------------------------------------------------------
(* Bounds and program constants                                            *)

\* The delay passed to window.setTimeout by saveDataToJsonbin, in ms.
DebounceMs == 2000

\* Time advances in steps of at most DebounceMs \div TicksPerDebounce ms.
TicksPerDebounce == 2

\* At most this many PUT requests are in flight at once.
MaxInFlight == 2

\* No name is added to a catalog of this length or longer.
MaxCatalog == 3

TickMs == DebounceMs \div TicksPerDebounce

-----------------------------------------------------------------------------
(* saveDataToJsonbin: the debounce timer                                   *)

\* A pending timer is [left |-> ms until it is due, current |-> whether
\* saveDataTimeout.current holds its id].  The ref itself is "null", "pending"
\* (the id of a pending timer) or "stale" (the id of a timer that has run):
\* ids are only ever compared, by clearTimeout.

\* if (saveDataTimeout.current) clearTimeout(saveDataTimeout.current);
\* the timer whose id the ref holds is dropped, if it is still pending.
TimeoutsNotCleared == timeouts

TimeoutsAfterClear == {t \in timeouts : ~t.current}

\* Variant: the pending timer is cleared and none is set.
saveDataToJsonbinClearOnly ==
    /\ timeouts' = TimeoutsAfterClear
    /\ saveDataTimeout' = "stale"
    /\ UNCHANGED <<sinceSave, burst>>

\* Variant: the new timer is set and the pending one is left to run.
saveDataToJsonbinNotClearing ==
    /\ timeouts' = {[t EXCEPT !.current = FALSE] : t \in timeouts}
                       \cup {[left |-> DebounceMs, current |-> TRUE]}
    /\ saveDataTimeout' = "pending"
    /\ sinceSave' = 0
    /\ burst' = IF timeouts = {} \/ burst.saves = 0
                THEN [saves |-> 1, puts |-> 0, after |-> <<Bundle'>>]
                ELSE [saves |-> 2, puts |-> burst.puts, after |-> <<Bundle'>>]

\* saveDataToJsonbin(): the pending timer is cleared and a new one is set
\* for DebounceMs from now; the ref holds the new id.
saveDataToJsonbin ==
    /\ timeouts' = TimeoutsAfterClear \cup {[left |-> DebounceMs, current |-> TRUE]}
    /\ saveDataTimeout' = "pending"
    /\ sinceSave' = 0
    /\ burst' = IF timeouts = {} \/ burst.saves = 0
                THEN [saves |-> 1, puts |-> 0, after |-> <<Bundle'>>]
                ELSE [saves |-> 2, puts |-> burst.puts, after |-> <<Bundle'>>]

\* burst counts, since the timer was last set with none pending, the calls
\* of saveDataToJsonbin (1, or 2 for more) and the PUTs issued (up to 2), and
\* keeps the bundle the last call left; a logout voids it.
NoBurst == [saves |-> 0, puts |-> 0, after |-> <<>>]

\* A handler path that does not reach saveDataToJsonbin().
NoSave == UNCHANGED <<timeouts, saveDataTimeout, sinceSave, burst>>

\* What no mutation handler touches.
HandlerFrame ==
    /\ UNCHANGED <<isAuthenticated, isDataLoading, isSaving, fetches, puts, remote,
                   staleFetches>>
    /\ lastPut' = <<>>

Op(name, a, b) == [op |-> name, a |-> a, b |-> b]

\* The state set by a step is rendered when the step ends: AppProvider runs
\* again and the handlers it defines close over the new medications; a
\* DataDisplay that stays on the screen shows the new healthData, and App
\* takes it off the screen unless isAuthenticated && !isDataLoading.
Rendered ==
    /\ closure' = medications'
    /\ chart' = IF chart # <<>> /\ isAuthenticated' /\ ~isDataLoading' /\ selectedDate' = <<>>
                THEN <<DataDisplay(healthData', chart[1].selectedDate)>>
                ELSE <<>>

\* The main screen, with the views that call the handlers, is rendered only
\* when isAuthenticated && !isDataLoading (App).
Ready == isAuthenticated /\ ~isDataLoading

-----------------------------------------------------------------------------
(* The mutation handlers                                                   *)

updateHealthData(date, data) ==
    /\ Ready
    /\ healthData' = updateHealthDataUpdater(healthData, date, data)
    /\ UNCHANGED <<medications, standardPattern, jsType>>
    /\ saveDataToJsonbin
    /\ HandlerFrame
    /\ FormEffect(TRUE)
    /\ lastOp' = Op("updateHealthData", date, "")
    /\ Rendered

\* The body of addMedication: the condition reads the medications of the
\* render that defined the handler, the updater the state as it is.
addMedicationCall(med) ==
    /\ Ready
    /\ UNCHANGED <<healthData, standardPattern, jsType>>
    /\ IF ~Includes(closure, med)
       THEN /\ medications' = addMedicationUpdater(medications, med)
            /\ saveDataToJsonbin
       ELSE /\ UNCHANGED medications
            /\ NoSave
    /\ HandlerFrame
    /\ FormEffect(FALSE)
    /\ lastOp' = Op("addMedication", med, "")

addMedication(med) ==
    /\ addMedicationCall(med)
    /\ Rendered

editMedication(oldMed, newMed) ==
    /\ Ready
    /\ healthData' = editHealthDataUpdater(healthData, oldMed, newMed)
    /\ standardPattern' = editStandardPatternUpdater(standardPattern, oldMed, newMed)
    /\ medications' = editMedicationsUpdater(medications, oldMed, newMed)
    /\ UNCHANGED jsType
    /\ saveDataToJsonbin
    /\ HandlerFrame
    /\ FormEffect(TRUE)
    /\ lastOp' = Op("editMedication", oldMed, newMed)
    /\ Rendered

deleteMedication(medToDelete) ==
    /\ Ready
    /\ healthData' = deleteHealthDataUpdater(healthData, medToDelete)
    /\ standardPattern' = deleteStandardPatternUpdater(standardPattern, medToDelete)
    /\ medications' = deleteMedicationsUpdater(medications, medToDelete)
    /\ UNCHANGED jsType
    /\ saveDataToJsonbin
    /\ HandlerFrame
    /\ FormEffect(TRUE)
    /\ lastOp' = Op("deleteMedication", medToDelete, "")
    /\ Rendered

updateStandardPattern(pattern) ==
    /\ Ready
    /\ standardPattern' = pattern
    /\ UNCHANGED <<healthData, medications, jsType>>
    /\ saveDataToJsonbin
    /\ HandlerFrame
    /\ FormEffect(FALSE)
    /\ lastOp' = Op("updateStandardPattern", "", "")
    /\ Rendered

\* Kinds of a parsed JSON value (JSON.parse), "undefined" standing for a
\* property the object does not have.  A value is [t |-> kind, v |-> payload];
\* the payload of a kind other than a non-empty array or object is <<>>.
FalsyKinds == {"undefined", "null", "false", "zero", "emptystr"}
TruthyKinds == {"true", "number", "string", "array", "object"}

Json(kind, payload) == [t |-> kind, v |-> payload]

\* Variant: an empty array or object counts as false too.
TruthyUnlessEmpty(j) == j.t \notin FalsyKinds /\ (j.t \in {"array", "object"} => j.v # <<>>)

\* The truth value JavaScript gives a value in a condition or under || and &&.
Truthy(j) == j.t \notin FalsyKinds

\* The object a file's text parses to; top is the kind of the parsed value
\* itself (a value that is no object has none of the three properties).
ParsedBundle(top, hd, meds, pattern) ==
    [top |-> top, healthData |-> hd, medications |-> meds, standardPattern |-> pattern]

\* Variant: the condition leaves out bundle.medications.
BundleAcceptedWithoutMedications(bundle) ==
    /\ bundle.top \notin FalsyKinds
    /\ Truthy(bundle.healthData)
    /\ Truthy(bundle.standardPattern)

\* bundle && bundle.healthData && bundle.medications && bundle.standardPattern
BundleAccepted(bundle) ==
    /\ bundle.top \notin FalsyKinds
    /\ Truthy(bundle.healthData)
    /\ Truthy(bundle.medications)
    /\ Truthy(bundle.standardPattern)

KindsOf(bundle) ==
    [healthData |-> bundle.healthData.t, medications |-> bundle.medications.t,
     standardPattern |-> bundle.standardPattern.t]

loadUserDataBundle(bundle) ==
    /\ Ready
    /\ IF BundleAccepted(bundle)
       THEN /\ healthData' = bundle.healthData.v
            /\ medications' = bundle.medications.v
            /\ standardPattern' = bundle.standardPattern.v
            /\ jsType' = KindsOf(bundle)
            /\ saveDataToJsonbin
            /\ FormEffect(TRUE)
            /\ lastOp' = Op("loadUserDataBundle", "installed", "")
       ELSE \* throw new Error("Invalid data structure in JSON file.")
            /\ UNCHANGED <<healthData, medications, standardPattern, jsType>>
            /\ NoSave
            /\ FormEffect(FALSE)
            /\ lastOp' = Op("loadUserDataBundle", "Invalid data structure", "")
    /\ HandlerFrame
    /\ Rendered

-----------------------------------------------------------------------------
(* Authentication and the initial load                                     *)

APP_PASSWORD == "password123"

\* login(password), from the login screen, and the effect that follows a
\* change of isAuthenticated: loadInitialUserData() sets isDataLoading and
\* issues the GET.
login(password) ==
    /\ ~isAuthenticated
    /\ IF password = APP_PASSWORD
       THEN /\ isAuthenticated' = TRUE
            /\ isDataLoading' = TRUE
            /\ fetches' = fetches + 1
       ELSE UNCHANGED <<isAuthenticated, isDataLoading, fetches>>
    /\ UNCHANGED <<healthData, medications, standardPattern, jsType, isSaving,
                   puts, remote>>
    /\ NoSave
    /\ UNCHANGED <<selectedDate, dailyData, staleFetches>>
    /\ lastPut' = <<>>
    /\ lastOp' = Op("login", password, "")
    /\ Rendered

\* Variant: the flag is cleared and the data are left in memory.
logoutKeepingData ==
    /\ Ready
    /\ isAuthenticated' = FALSE
    /\ UNCHANGED <<healthData, medications, standardPattern, jsType>>
    /\ UNCHANGED <<isDataLoading, isSaving, fetches, puts, remote,
                   timeouts, saveDataTimeout, sinceSave>>
    /\ burst' = NoBurst
    /\ staleFetches' = fetches
    /\ FormUnmounted
    /\ lastPut' = <<>>
    /\ lastOp' = Op("logout", "", "")
    /\ Rendered

\* logout(), from the header of the main screen.  The pending timer is left
\* alone.
logout ==
    /\ Ready
    /\ isAuthenticated' = FALSE
    /\ healthData' = defaultHealthData
    /\ medications' = defaultMedications
    /\ standardPattern' = defaultStandardPattern
    /\ jsType' = WellTyped
    /\ UNCHANGED <<isDataLoading, isSaving, fetches, puts, remote,
                   timeouts, saveDataTimeout, sinceSave>>
    /\ burst' = NoBurst
    /\ staleFetches' = fetches
    /\ FormUnmounted
    /\ lastPut' = <<>>
    /\ lastOp' = Op("logout", "", "")
    /\ Rendered

\* How an async function settles: with a value, or with an error.
Returned(data) == [error |-> <<>>, data |-> <<data>>]
Thrown(message) == [error |-> <<message>>, data |-> <<>>]

\* The try block of loadDataFromBin, by what the GET does: a status that is
\* not ok returns defaultData if it is 404 and throws otherwise; an empty
\* body returns defaultData; JSON.parse returns the document or throws; a
\* fetch that rejects throws.
loadDataFromBinTry(outcome) ==
    CASE outcome = "status404" -> Returned(defaultUserDataBundle)
      [] outcome = "status500" -> Thrown("Failed to load: Internal Server Error")
      [] outcome = "emptyBody" -> Returned(defaultUserDataBundle)
      [] outcome = "unparsable" -> Thrown("SyntaxError")
      [] outcome = "transport" -> Thrown("TypeError: Failed to fetch")
      [] outcome = "document" -> Returned(remote[1])

\* loadDataFromBin: what the try block returns; an error it throws is
\* caught, logged, and defaultData is returned.
loadDataFromBin(outcome) ==
    IF loadDataFromBinTry(outcome).error # <<>>
    THEN Returned(defaultUserDataBundle)
    ELSE loadDataFromBinTry(outcome)

\* Variant: all three properties of the document, or none.
OrDefaultAll(data, field, default) ==
    IF \A f \in DOMAIN data.jsType : data.jsType[f] \notin FalsyKinds THEN data[field] ELSE default

\* data.field || default, with the kind the installed value has.
OrDefault(data, field, default) ==
    IF data.jsType[field] \notin FalsyKinds THEN data[field] ELSE default

OrDefaultKind(data, field) ==
    IF data.jsType[field] \notin FalsyKinds THEN data.jsType[field] ELSE WellTyped[field]

\* Variant: isDataLoading is not reset.
LoadingNotReset(loading) == loading

\* finally { setIsDataLoading(false); }
LoadingAfterFinally(loading) == FALSE

\* The continuation of loadInitialUserData once the GET has settled: the
\* three setters with what loadDataFromBin returned, or the catch if it
\* threw, and the finally.
loadInitialUserDataDone(outcome) ==
    /\ fetches > 0
    /\ outcome = "document" => remote # <<>>
    /\ outcome = "status404" => remote = <<>>
    /\ LET settled == loadDataFromBin(outcome)
       IN  IF settled.error = <<>>
           THEN LET data == settled.data[1]
                IN  /\ healthData' = OrDefault(data, "healthData", defaultHealthData)
                    /\ medications' = OrDefault(data, "medications", defaultMedications)
                    /\ standardPattern' =
                           OrDefault(data, "standardPattern", defaultStandardPattern)
                    /\ jsType' = [f \in DOMAIN WellTyped |-> OrDefaultKind(data, f)]
                    /\ lastOp' = Op("loadInitialUserData", outcome, "resolved")
           ELSE /\ UNCHANGED <<healthData, medications, standardPattern, jsType>>
                /\ lastOp' = Op("loadInitialUserData", outcome, "rejected")
    /\ isDataLoading' = LoadingAfterFinally(isDataLoading)
    /\ fetches' = fetches - 1
    /\ \E earlier \in BOOLEAN :
          /\ IF earlier THEN staleFetches > 0 ELSE fetches > staleFetches
          /\ staleFetches' = IF earlier THEN staleFetches - 1 ELSE staleFetches
    /\ UNCHANGED <<isAuthenticated, isSaving, puts, remote>>
    /\ NoSave
    /\ FormEffect(TRUE)
    /\ lastPut' = <<>>
    /\ Rendered

-----------------------------------------------------------------------------
(* Time, the timer callback and the PUT                                    *)

Min(a, b) == IF a < b THEN a ELSE b

\* Time passes, by a tick or up to the moment the next timer is due.  A due
\* timer runs before time passes further.
Tick ==
    /\ timeouts # {}
    /\ \A t \in timeouts : t.left > 0
    /\ LET step == CHOOSE d \in 1..TickMs :
                      /\ \A t \in timeouts : d <= t.left
                      /\ d = TickMs \/ \E t \in timeouts : d = t.left
       IN  /\ timeouts' = {[t EXCEPT !.left = @ - step] : t \in timeouts}
           /\ sinceSave' = Min(sinceSave + step, DebounceMs)
    /\ UNCHANGED <<healthData, medications, standardPattern, jsType, isAuthenticated,
                   isDataLoading, isSaving, fetches, saveDataTimeout, puts, remote, burst,
                   selectedDate, dailyData, staleFetches>>
    /\ lastPut' = <<>>
    /\ lastOp' = Op("tick", "", "")
    /\ Rendered

\* Variant: the callback returns while a PUT is in flight.
timeoutCallbackUnlessSaving(t) ==
    /\ t \in timeouts
    /\ t.left = 0
    /\ timeouts' = timeouts \ {t}
    /\ saveDataTimeout' = IF t.current THEN "stale" ELSE saveDataTimeout
    /\ IF ~isAuthenticated \/ isSaving
       THEN /\ UNCHANGED <<isSaving, puts, burst>>
            /\ lastPut' = <<>>
       ELSE /\ Len(puts) < MaxInFlight
            /\ isSaving' = TRUE
            /\ puts' = Append(puts, Bundle)
            /\ lastPut' = <<Bundle>>
            /\ burst' = [burst EXCEPT !.puts = Min(@ + 1, 2)]
    /\ UNCHANGED <<healthData, medications, standardPattern, jsType, isAuthenticated,
                   isDataLoading, fetches, remote, sinceSave, selectedDate, dailyData,
                   staleFetches>>
    /\ lastOp' = Op("timeout", "", "")
    /\ Rendered

\* The callback given to window.setTimeout, when its timer is due.
timeoutCallback(t) ==
    /\ t \in timeouts
    /\ t.left = 0
    /\ timeouts' = timeouts \ {t}
    /\ saveDataTimeout' = IF t.current THEN "stale" ELSE saveDataTimeout
    /\ IF ~isAuthenticated
       THEN \* if (!dataRef.current.isAuthenticated) return;
            /\ UNCHANGED <<isSaving, puts, burst>>
            /\ lastPut' = <<>>
       ELSE /\ Len(puts) < MaxInFlight
            /\ isSaving' = TRUE
            /\ puts' = Append(puts, Bundle)
            /\ lastPut' = <<Bundle>>
            /\ burst' = [burst EXCEPT !.puts = Min(@ + 1, 2)]
    /\ UNCHANGED <<healthData, medications, standardPattern, jsType, isAuthenticated,
                   isDataLoading, fetches, remote, sinceSave, selectedDate, dailyData, staleFetches>>
    /\ lastOp' = Op("timeout", "", "")
    /\ Rendered

RemoveAt(s, i) == SubSeq(s, 1, i - 1) \o SubSeq(s, i + 1, Len(s))

\* Variant: a PUT that failed is issued again.
saveDataToBinDoneRetrying(i, ok) ==
    /\ i \in DOMAIN puts
    /\ remote' = IF ok THEN <<puts[i]>> ELSE remote
    /\ puts' = IF ok THEN RemoveAt(puts, i) ELSE Append(RemoveAt(puts, i), puts[i])
    /\ isSaving' = ~ok
    /\ UNCHANGED <<healthData, medications, standardPattern, jsType, isAuthenticated,
                   isDataLoading, fetches, timeouts, saveDataTimeout, sinceSave, burst,
                   selectedDate, dailyData, staleFetches>>
    /\ lastPut' = IF ok THEN <<>> ELSE <<puts[i]>>
    /\ lastOp' = Op("saveDataToBin", IF ok THEN "ok" ELSE "failed", "")
    /\ Rendered

\* saveDataToBin settles: on a success status the bin holds the body; on a
\* failure the error is caught and logged.  Either way setIsSaving(false).
saveDataToBinDone(i, ok) ==
    /\ i \in DOMAIN puts
    /\ remote' = IF ok THEN <<puts[i]>> ELSE remote
    /\ puts' = RemoveAt(puts, i)
    /\ isSaving' = FALSE
    /\ UNCHANGED <<healthData, medications, standardPattern, jsType, isAuthenticated,
                   isDataLoading, fetches, timeouts, saveDataTimeout, sinceSave, burst,
                   selectedDate, dailyData, staleFetches>>
    /\ lastPut' = <<>>
    /\ lastOp' = Op("saveDataToBin", IF ok THEN "ok" ELSE "failed", "")
    /\ Rendered

-----------------------------------------------------------------------------
(* Initial state: AppProvider mounted, with or without the stored flag     *)

Init ==
    /\ healthData = defaultHealthData
    /\ medications = defaultMedications
    /\ standardPattern = defaultStandardPattern
    /\ jsType = WellTyped
    /\ isAuthenticated \in BOOLEAN
    /\ isDataLoading = isAuthenticated
    /\ fetches = IF isAuthenticated THEN 1 ELSE 0
    /\ isSaving = FALSE
    /\ timeouts = {}
    /\ saveDataTimeout = "null"
    /\ puts = <<>>
    /\ remote = <<>>
    /\ sinceSave = DebounceMs
    /\ lastPut = <<>>
    /\ burst = NoBurst
    /\ lastOp = Op("mount", "", "")
    /\ selectedDate = <<>>
    /\ dailyData = <<>>
    /\ closure = medications
    /\ chart = <<>>
    /\ staleFetches = 0

-----------------------------------------------------------------------------
(* Handler arguments                                                       *)

Dates == {"2024-06-01", "2024-06-02"}

Entry(key, value) == [k |-> key, v |-> value]

\* Day records: the value 0 alone, a comment alone (in another slot), a
\* medication alone (deleting it leaves a slot with nothing in it).
ZeroDay == <<Entry("08:00", Slot(Num(0), <<>>, ""))>>
NoteDay == <<Entry("08:30", Slot(Null, <<>>, "headache"))>>
MedDay(med) == <<Entry("08:00", Slot(Null, <<med>>, ""))>>

\* The (date, record) pairs updateHealthData is called with.
DayInputs ==
    {<<"2024-06-01", ZeroDay>>, <<"2024-06-01", NoteDay>>, <<"2024-06-02", MedDay(MedicinaB)>>}

\* The patterns StandardPatternManager holds when Guardar is pressed; a slot
\* whose medications were all deselected is left with an empty list.
Patterns ==
    { <<>>,
      <<Entry("08:00", <<MedicinaA>>)>>,
      <<Entry("08:00", <<>>), Entry("08:30", <<MedicinaB>>)>> }

\* StandardPatternManager.handleSave: cleanedPattern keeps the entries
\* with meds?.length > 0.
cleanedPattern(pattern) ==
    SelectSeq(pattern, LAMBDA e : Len(e.v) > 0)

Undefined == Json("undefined", <<>>)
JsonNull == Json("null", <<>>)

\* Files of the declared shape (UserDataBundle): a catalog out of order, and
\* a catalog with a repeated name next to data that uses it.
UnsortedFile ==
    ParsedBundle("object", Json("object", <<>>),
                 Json("array", <<MedicinaB, MedicinaA>>), Json("object", <<>>))
RepeatedFile ==
    ParsedBundle("object",
                 Json("object", <<Entry("2024-06-02", MedDay(Aspirin))>>),
                 Json("array", <<Aspirin, Aspirin>>),
                 Json("object", <<Entry("08:00", <<Aspirin>>)>>))

\* A file whose pattern has a slot with no medication.
EmptySlotFile ==
    ParsedBundle("object", Json("object", <<>>),
                 Json("array", <<MedicinaA, MedicinaB>>),
                 Json("object", <<Entry("08:00", <<>>), Entry("08:30", <<MedicinaA>>)>>))

\* Files that lack a property, hold null for one, or are null themselves.
BrokenFiles ==
    { ParsedBundle("object", Undefined, UnsortedFile.medications, UnsortedFile.standardPattern),
      ParsedBundle("object", RepeatedFile.healthData, Undefined, RepeatedFile.standardPattern),
      ParsedBundle("object", RepeatedFile.healthData, RepeatedFile.medications, Undefined),
      ParsedBundle("object", JsonNull, UnsortedFile.medications, UnsortedFile.standardPattern),
      ParsedBundle("null", Undefined, Undefined, Undefined) }

Files == {UnsortedFile, RepeatedFile, EmptySlotFile} \cup BrokenFiles

Passwords == {APP_PASSWORD, "letmein"}

\* What the GET of loadDataFromBin does: 200 with the document, with an
\* empty body or with a body that is not JSON; 404; another status that is
\* not ok; no response at all.
FetchOutcomes == {"document", "emptyBody", "unparsable", "status404", "status500", "transport"}

-----------------------------------------------------------------------------
(* Spec: the bundle under the handlers of the store                        *)

UpdateHealthData == \E input \in DayInputs : updateHealthData(input[1], input[2])

AddMedication ==
    \E med \in Names :
        /\ Includes(medications, med) \/ Len(medications) < MaxCatalog
        /\ addMedication(med)

\* MedicationManager.handleEdit calls editMedication only with a new name
\* that differs from the old one.
EditMedication ==
    \E oldMed \in Names, newMed \in Names : oldMed # newMed /\ editMedication(oldMed, newMed)

DeleteMedication == \E med \in Names : deleteMedication(med)

UpdateStandardPattern ==
    \E pattern \in Patterns : updateStandardPattern(cleanedPattern(pattern))

LoadUserDataBundle == \E bundle \in Files : loadUserDataBundle(bundle)

Login == \E password \in Passwords : login(password)

Logout == logout

LoadInitialUserDataDone == \E outcome \in FetchOutcomes : loadInitialUserDataDone(outcome)

Next ==
    \/ UpdateHealthData
    \/ AddMedication
    \/ EditMedication
    \/ DeleteMedication
    \/ UpdateStandardPattern
    \/ LoadUserDataBundle
    \/ Login
    \/ Logout
    \/ LoadInitialUserDataDone

Spec == Init /\ [][Next]_vars

-----------------------------------------------------------------------------
(* Properties of the handlers                                              *)

\* Every medication list of every slot of every day of hd.
MedLists(hd) == UNION {{hd[i].v[j].v.medications : j \in DOMAIN hd[i].v} : i \in DOMAIN hd}

\* C2: after updateHealthData(d, r) the archive maps d to exactly r, and the
\* record of every other date is what it was.
C2_RecordDayReplaces ==
    [][\A input \in DayInputs :
          updateHealthData(input[1], input[2]) =>
              /\ HasKey(healthData', input[1])
              /\ Get(healthData', input[1]) = input[2]
              /\ \A e \in (Keys(healthData) \cup Keys(healthData')) \ {input[1]} :
                    /\ HasKey(healthData, e) /\ HasKey(healthData', e)
                    /\ Get(healthData', e) = Get(healthData, e)]_vars

\* A day that had a record was given another one, next to a second day.
C2_Witness ==
    /\ lastOp = Op("updateHealthData", "2024-06-01", "")
    /\ healthData = <<Entry("2024-06-02", MedDay(MedicinaB)), Entry("2024-06-01", NoteDay)>>

\* What the marker is said to show for a date: some slot of the date's
\* record has a value (0 included), a medication or a comment.
DayHoldsSomething(d) ==
    \E i \in DOMAIN healthData :
        /\ healthData[i].k = d
        /\ \E j \in DOMAIN healthData[i].v :
              LET slot == healthData[i].v[j].v
              IN  slot.value \in {Num(n) : n \in 0..10}
                  \/ slot.medications # <<>>
                  \/ slot.comments # ""

\* C3: the calendar's marker of a date is set exactly when the date's record
\* holds something; not for a date without a record, nor for a record whose
\* slots are all empty.
C3_HasDataMarker == \A d \in Dates : hasData(healthData, d) <=> DayHoldsSomething(d)

\* One day holds the value 0 alone and is marked, another holds a slot with
\* nothing in it and is not.
C3_Witness ==
    /\ HasKey(healthData, "2024-06-01") /\ Get(healthData, "2024-06-01") = ZeroDay
    /\ hasData(healthData, "2024-06-01")
    /\ HasKey(healthData, "2024-06-02")
    /\ Get(healthData, "2024-06-02") = <<Entry("08:00", Slot(Null, <<>>, ""))>>
    /\ ~hasData(healthData, "2024-06-02")

\* The number of entries of arr equal to x.
Count(arr, x) == Cardinality({i \in DOMAIN arr : arr[i] = x})

\* The catalog a further addMedication(m) would leave, given the catalog c.
AfterAdd(c, m) == IF Includes(c, m) THEN c ELSE addMedicationUpdater(c, m)

\* C4: addMedication(m) leaves a catalog that a second addMedication(m)
\* does not change and that holds m exactly once; with m already present it
\* changes neither the catalog nor the timer.
C4_AddIdempotent ==
    [][\A m \in Names :
          addMedication(m) =>
              /\ AfterAdd(medications', m) = medications'
              /\ Count(medications', m) = 1
              /\ Includes(medications, m) =>
                    UNCHANGED <<medications, timeouts, saveDataTimeout, sinceSave>>]_vars

\* No entry of arr sorts before the entry in front of it.
IsSorted(arr) == \A i \in 1..(Len(arr) - 1) : ~StrLess(arr[i + 1], arr[i])

\* C5: the catalog is in ascending order.
C5_CatalogSorted == IsSorted(medications)

\* C6: no name is in the catalog twice.
C6_CatalogUnique == \A i, j \in DOMAIN medications : medications[i] = medications[j] => i = j

\* What editMedication(oldMed, newMed) makes of a bundle.
AfterEdit(b, oldMed, newMed) ==
    [b EXCEPT !.healthData = editHealthDataUpdater(@, oldMed, newMed),
              !.standardPattern = editStandardPatternUpdater(@, oldMed, newMed),
              !.medications = editMedicationsUpdater(@, oldMed, newMed)]

\* The name occurs in no medication list of the archive or of the pattern.
Unused(m) ==
    /\ \A l \in MedLists(healthData) : ~Includes(l, m)
    /\ \A i \in DOMAIN standardPattern : ~Includes(standardPattern[i].v, m)

\* C7: renaming a to a name b the bundle does not hold, and back, gives the
\* bundle back.
C7_RenameRoundTrip ==
    \A a, b \in Names :
        (a # b /\ Includes(medications, a) /\ ~Includes(medications, b) /\ Unused(b))
            => AfterEdit(AfterEdit(Bundle, a, b), b, a) = Bundle

\* C8: after deleteMedication(m), m is in no catalog entry, in no slot of any
\* day and in no slot of the pattern, and the pattern has no empty slot.
C8_DeleteRemoves ==
    [][\A m \in Names :
          deleteMedication(m) =>
              /\ ~Includes(medications', m)
              /\ \A l \in MedLists(healthData') : ~Includes(l, m)
              /\ \A i \in DOMAIN standardPattern' :
                    ~Includes(standardPattern'[i].v, m) /\ standardPattern'[i].v # <<>>]_vars

\* "Medicina B" was deleted: the day that held it keeps an empty slot.
C8_Witness ==
    /\ lastOp = Op("deleteMedication", MedicinaB, "")
    /\ HasKey(healthData, "2024-06-02")
    /\ Get(healthData, "2024-06-02") = <<Entry("08:00", Slot(Null, <<>>, ""))>>
    /\ medications = <<MedicinaA>>

\* The file lacks one of the three properties.
LacksProperty(bundle) ==
    \E f \in {"healthData", "medications", "standardPattern"} : bundle[f].t = "undefined"

\* C9: loadUserDataBundle on a file that lacks a property fails, leaves the
\* bundle alone and neither starts nor restarts the timer.
C9_ImportRejects ==
    [][\A bundle \in Files :
          (LacksProperty(bundle) /\ loadUserDataBundle(bundle)) =>
              /\ lastOp' = Op("loadUserDataBundle", "Invalid data structure", "")
              /\ UNCHANGED <<healthData, medications, standardPattern, jsType>>
              /\ UNCHANGED <<timeouts, saveDataTimeout, sinceSave>>]_vars

\* A file was refused while the store held something other than the defaults.
C9_Witness ==
    /\ lastOp = Op("loadUserDataBundle", "Invalid data structure", "")
    /\ medications = <<Aspirin, MedicinaA, MedicinaB>>
    /\ timeouts # {}

\* C14: after logout() the store is unauthenticated, the stored flag is
\* false, and the archive, the catalog and the pattern are the defaults: no
\* day, 'Medicina A' and 'Medicina B', no pattern entry.
C14_LogoutResets ==
    lastOp = Op("logout", "", "") =>
        /\ ~isAuthenticated
        /\ healthData = <<>>
        /\ medications = <<"Medicina A", "Medicina B">>
        /\ standardPattern = <<>>
        /\ jsType = WellTyped

\* logout() was called with a save of changed data still pending.
C14_Witness ==
    /\ lastOp = Op("logout", "", "")
    /\ ~isAuthenticated
    /\ medications = defaultMedications
    /\ timeouts # {}
    /\ burst = NoBurst

-----------------------------------------------------------------------------
(* SpecJson: loadUserDataBundle on whatever a file parses to               *)

\* The values a property of the parsed file may have: absent, each falsy and
\* each truthy kind, and a value of the declared type.
JsonValues(declared) ==
    {Json(kind, <<>>) : kind \in FalsyKinds \cup TruthyKinds} \cup {declared}

\* The values the other two properties take meanwhile.
JsonFew(declared) == {JsonNull, Json("object", <<>>), declared}

DeclaredHealthData == Json("object", <<Entry("2024-06-01", ZeroDay)>>)
DeclaredMedications == Json("array", <<MedicinaB>>)
DeclaredStandardPattern == Json("object", <<Entry("08:00", <<MedicinaA>>)>>)

\* Parsed files: one property ranges over every kind of value while the other
\* two range over a few, and files that are not objects at all.
JsonFiles ==
    {ParsedBundle("object", hd, meds, pattern) :
        hd \in JsonValues(DeclaredHealthData),
        meds \in JsonFew(DeclaredMedications),
        pattern \in JsonFew(DeclaredStandardPattern)}
    \cup
    {ParsedBundle("object", hd, meds, pattern) :
        hd \in JsonFew(DeclaredHealthData),
        meds \in JsonValues(DeclaredMedications),
        pattern \in JsonFew(DeclaredStandardPattern)}
    \cup
    {ParsedBundle("object", hd, meds, pattern) :
        hd \in JsonFew(DeclaredHealthData),
        meds \in JsonFew(DeclaredMedications),
        pattern \in JsonValues(DeclaredStandardPattern)}
    \cup
    {ParsedBundle(top, Undefined, Undefined, Undefined) : top \in {"null", "number", "array"}}

LoadJsonFile == \E bundle \in JsonFiles : loadUserDataBundle(bundle)

NextJson ==
    \/ LoadJsonFile
    \/ Login
    \/ Logout
    \/ LoadInitialUserDataDone

SpecJson == Init /\ [][NextJson]_vars

\* The timer has just been set: it is the only one the ref points to, and it
\* is due in DebounceMs.
SaveScheduled ==
    /\ saveDataTimeout' = "pending"
    /\ [left |-> DebounceMs, current |-> TRUE] \in timeouts'
    /\ \A t \in timeouts' : t.current => t.left = DebounceMs
    /\ sinceSave' = 0

Installed(bundle) ==
    /\ healthData' = bundle.healthData.v
    /\ medications' = bundle.medications.v
    /\ standardPattern' = bundle.standardPattern.v
    /\ jsType' = KindsOf(bundle)
    /\ SaveScheduled

Refused ==
    /\ lastOp' = Op("loadUserDataBundle", "Invalid data structure", "")
    /\ UNCHANGED <<healthData, medications, standardPattern, jsType>>
    /\ UNCHANGED <<timeouts, saveDataTimeout, sinceSave>>

HasAllThree(bundle) ==
    \A f \in {"healthData", "medications", "standardPattern"} : bundle[f].t # "undefined"

\* C10, as claimed: a file that has all three properties is installed and a
\* save is scheduled, whatever the values of the properties.
C10_AcceptsAnyPresent ==
    [][\A bundle \in JsonFiles :
          (HasAllThree(bundle) /\ loadUserDataBundle(bundle)) => Installed(bundle)]_vars

\* C10, amended: a file is installed, and a save scheduled, exactly when each
\* of its three properties is true, a non-zero number, a non-empty string, an
\* array or an object (of any content, empty included); a file with a
\* property that is absent, null, false, 0 or "" is refused.
C10_AcceptsTruthy ==
    [][\A bundle \in JsonFiles :
          loadUserDataBundle(bundle) =>
              IF /\ bundle.top = "object"
                 /\ \A f \in {"healthData", "medications", "standardPattern"} :
                       bundle[f].t \in TruthyKinds
              THEN Installed(bundle)
              ELSE Refused]_vars

\* A file with a number for the catalog and empty objects for the other two
\* properties has been installed and a save is pending.
C10_Witness ==
    /\ lastOp = Op("loadUserDataBundle", "installed", "")
    /\ jsType = [healthData |-> "object", medications |-> "number", standardPattern |-> "object"]
    /\ healthData = <<>>
    /\ standardPattern = <<>>
    /\ timeouts = {[left |-> DebounceMs, current |-> TRUE]}

-----------------------------------------------------------------------------
(* SpecSync: a few handlers, the clock, the timer callback and the PUTs    *)

SyncAddMedication == addMedication(Aspirin)

SyncDeleteMedication == deleteMedication(Aspirin)

SyncUpdateHealthData == updateHealthData("2024-06-01", ZeroDay)

TimeoutCallback == \E t \in timeouts : timeoutCallback(t)

SaveDataToBinDone == \E i \in DOMAIN puts : \E ok \in BOOLEAN : saveDataToBinDone(i, ok)

NextSync ==
    \/ SyncAddMedication
    \/ SyncDeleteMedication
    \/ SyncUpdateHealthData
    \/ Login
    \/ Logout
    \/ LoadInitialUserDataDone
    \/ Tick
    \/ TimeoutCallback
    \/ SaveDataToBinDone

SpecSync == Init /\ [][NextSync]_vars

\* C1: when a mutation calls saveDataToJsonbin while the timer of an earlier
\* one is still pending (burst.saves = 2) and the session goes on, at most
\* one PUT follows; until it is issued a timer is pending, after it none is;
\* and it is issued only once DebounceMs have passed since the last mutation,
\* with the bundle that mutation left as its body.
C1_DebounceCoalesces ==
    burst.saves = 2 =>
        /\ burst.puts <= 1
        /\ burst.puts = 0 => Cardinality(timeouts) = 1
        /\ burst.puts = 1 => timeouts = {}
        /\ lastPut # <<>> =>
              /\ sinceSave = DebounceMs
              /\ lastPut = burst.after
              /\ lastPut[1] = Bundle

\* The PUT of a burst of an addition and a day's record has just been issued,
\* carrying both.
C1_Witness ==
    /\ burst.saves = 2
    /\ burst.puts = 1
    /\ lastPut # <<>>
    /\ lastPut[1].medications = <<Aspirin, MedicinaA, MedicinaB>>
    /\ lastPut[1].healthData = <<Entry("2024-06-01", ZeroDay)>>

\* The handlers that call saveDataToJsonbin.
MutationOps ==
    {"updateHealthData", "addMedication", "editMedication", "deleteMedication",
     "updateStandardPattern", "loadUserDataBundle"}

\* C17: a PUT that fails leaves the bundle in memory as it is, raises no
\* flag (isSaving is reset), sets no timer and is not issued again; a PUT is
\* issued by a timer only, and a timer is set by a mutation only.
C17_FailedSaveNoRetry ==
    /\ [][\A i \in DOMAIN puts :
             saveDataToBinDone(i, FALSE) =>
                 /\ UNCHANGED <<healthData, medications, standardPattern, jsType>>
                 /\ UNCHANGED <<timeouts, saveDataTimeout, remote>>
                 /\ puts' = RemoveAt(puts, i)
                 /\ lastPut' = <<>>
                 /\ ~isSaving']_vars
    /\ [][lastPut' # <<>> => lastOp'.op = "timeout"]_vars
    /\ [][(timeouts' # {} /\ sinceSave' = 0 /\ (timeouts = {} \/ sinceSave # 0)) =>
             lastOp'.op \in MutationOps]_vars

\* The only PUT has failed: nothing is pending or in flight, and the bin
\* does not hold the bundle that is in memory.
C17_Witness ==
    /\ lastOp = Op("saveDataToBin", "failed", "")
    /\ isAuthenticated
    /\ timeouts = {}
    /\ puts = <<>>
    /\ remote = <<>>
    /\ medications = <<Aspirin, MedicinaA, MedicinaB>>

\* C19: no PUT is issued while the store is unauthenticated, and a timer
\* that was pending when logout() was called (no save has been scheduled
\* since: burst.saves = 0) issues none when it fires.
C19_NoPutAfterLogout ==
    /\ [](lastPut # <<>> => isAuthenticated)
    /\ [][(timeouts # {} /\ burst.saves = 0 /\ lastOp'.op = "timeout") =>
             lastPut' = <<>>]_vars

\* C28: a timer that was pending at a logout (none has been set since: burst
\* is void) issues no PUT when it fires in the session of a later login, and
\* no default bundle written by such a timer reaches the bin.
C28_NoPutAcrossSessions ==
    [][(timeouts # {} /\ burst = NoBurst /\ isAuthenticated /\ lastOp'.op = "timeout")
          => UNCHANGED <<puts, isSaving>>]_vars

\* C23: at most one timer is pending, and it is the one whose id
\* saveDataTimeout holds: a timer replaced by a later saveDataToJsonbin() is
\* no longer pending, so it cannot fire.
C23_OneTimerPending ==
    /\ Cardinality(timeouts) <= 1
    /\ \A t \in timeouts : t.current /\ saveDataTimeout = "pending"

\* A mutation has called saveDataToJsonbin() while a timer was pending, and
\* one timer is pending, with the full delay.
C23_Witness ==
    /\ lastOp.op \in MutationOps
    /\ burst.saves = 2
    /\ burst.puts = 0
    /\ timeouts = {[left |-> DebounceMs, current |-> TRUE]}

\* The newer of two PUTs in flight has just succeeded: the bin holds the
\* bundle in memory, no timer is pending, and an older snapshot is in flight.
NewerLandedFirst ==
    /\ isAuthenticated
    /\ lastOp = Op("saveDataToBin", "ok", "")
    /\ Len(puts) = 1
    /\ puts[1] # Bundle
    /\ remote = <<Bundle>>
    /\ timeouts = {}
    /\ burst.after = <<Bundle>>

\* C22: the timer callback of an authenticated store issues its PUT whether
\* or not an earlier PUT is in flight, and a PUT that succeeds leaves its body
\* in the bin whatever was issued after it: when the older of two PUTs
\* succeeds after the newer, the bin is left with the older snapshot and
\* differs from the bundle in memory.
C22_NoInFlightGuard ==
    [][/\ lastOp'.op = "timeout" /\ isAuthenticated => puts' = Append(puts, Bundle)
       /\ \A i \in DOMAIN puts :
              saveDataToBinDone(i, TRUE) => remote' = <<puts[i]>>
       /\ NewerLandedFirst /\ saveDataToBinDone(1, TRUE) =>
              /\ puts' = <<>>
              /\ remote' = <<puts[1]>>
              /\ remote' # <<Bundle'>>]_vars

\* Two PUTs with different bodies were in flight at once and the newer one
\* has succeeded first.
C22_Witness == NewerLandedFirst /\ burst.puts = 1

\* C24: isSaving is true exactly when a PUT issued by the store is in flight.
C24_SavingIffInFlight == isSaving <=> puts # <<>>

NextLive ==
    \/ SyncAddMedication
    \/ SyncDeleteMedication
    \/ Login
    \/ Logout
    \/ LoadInitialUserDataDone
    \/ Tick
    \/ TimeoutCallback
    \/ SaveDataToBinDone

\* Time passes, a timer that is due runs its callback, and a request settles.
SpecLive ==
    /\ Init
    /\ [][NextLive]_vars
    /\ WF_vars(Tick)
    /\ WF_vars(TimeoutCallback)
    /\ WF_vars(SaveDataToBinDone)

\* A step that calls saveDataToJsonbin.
SaveStep == sinceSave' = 0 /\ lastOp'.op \in MutationOps

\* C20: a mutation that changes the bundle of an authenticated store
\* schedules a save; and unless mutations go on for ever, a pending timer of
\* an authenticated store leads to a logout or to a PUT whose body is the
\* bundle in memory: the bundle the last mutation left.
C20_SaveEventuallyIssued ==
    /\ [][(isAuthenticated /\ lastOp'.op \in MutationOps
              /\ <<healthData, medications, standardPattern>>'
                    # <<healthData, medications, standardPattern>>) =>
             SaveScheduled]_vars
    /\ \/ []<><<SaveStep>>_vars
       \/ (isAuthenticated /\ timeouts # {})
              ~> (~isAuthenticated \/ (lastPut # <<>> /\ lastPut[1] = Bundle))

\* The PUT of a single mutation has been issued with the bundle it left.
C20_Witness ==
    /\ lastOp = Op("timeout", "", "")
    /\ burst.saves = 1
    /\ burst.puts = 1
    /\ lastPut = <<Bundle>>
    /\ burst.after = lastPut
    /\ lastPut[1].medications = <<Aspirin, MedicinaA, MedicinaB>>
    /\ sinceSave = DebounceMs

-----------------------------------------------------------------------------
(* SpecPrune: the pattern on its way to the bin                            *)

PruneDeleteMedication == deleteMedication(MedicinaA)

PruneLoadUserDataBundle == loadUserDataBundle(EmptySlotFile)

NextPrune ==
    \/ UpdateStandardPattern
    \/ PruneDeleteMedication
    \/ PruneLoadUserDataBundle
    \/ Login
    \/ Logout
    \/ LoadInitialUserDataDone
    \/ Tick
    \/ TimeoutCallback
    \/ SaveDataToBinDone

SpecPrune == Init /\ [][NextPrune]_vars

\* No slot of the pattern holds an empty medication list.
Pruned(pattern) == \A j \in DOMAIN pattern : pattern[j].v # <<>>

\* C11: the body of every PUT has a standard pattern without a slot mapped
\* to an empty medication list.
C11_PutBodiesPruned == \A i \in DOMAIN puts : Pruned(puts[i].standardPattern)

-----------------------------------------------------------------------------
(* SpecForm: DataInputForm over the store                                  *)

\* What the form's handlers leave alone.
FormFrame ==
    /\ UNCHANGED <<healthData, medications, standardPattern, jsType, isAuthenticated,
                   isDataLoading, isSaving, fetches, puts, remote, staleFetches>>
    /\ NoSave
    /\ lastPut' = <<>>
    /\ Rendered

\* The tracker's input tab comes on the screen for a date, or the date
\* changes while it is there: the form's effect loads the stored record.
selectDate(date) ==
    /\ Ready
    /\ selectedDate' = <<date>>
    /\ dailyData' = fullData(healthData, date)
    /\ FormFrame
    /\ lastOp' = Op("selectDate", date, "")

\* The button "Aplicar patrón" of the form.
applyStandardPattern ==
    /\ Ready
    /\ selectedDate # <<>>
    /\ dailyData' = applyStandardPatternUpdater(dailyData, standardPattern)
    /\ UNCHANGED selectedDate
    /\ FormFrame
    /\ lastOp' = Op("applyStandardPattern", selectedDate[1], "")

\* DataInputForm.handleSave.
handleSave ==
    /\ selectedDate # <<>>
    /\ updateHealthData(selectedDate[1], dailyData)

\* A file written when the grid reached 23:30, with a day and a pattern
\* that use that label.
LateSlotFile ==
    ParsedBundle("object",
                 Json("object", <<Entry("2024-06-01",
                                        <<Entry("08:00", Slot(Num(3), <<MedicinaB, MedicinaB>>, "tired")),
                                          Entry("23:30", Slot(Null, <<MedicinaA>>, ""))>>)>>),
                 Json("array", <<MedicinaA, MedicinaB>>),
                 Json("object", <<Entry("08:00", <<MedicinaA, MedicinaB>>),
                                  Entry("23:30", <<MedicinaA>>)>>))

SelectDate == \E date \in Dates : selectDate(date)

ApplyStandardPattern == applyStandardPattern

HandleSave == handleSave

FormLoadUserDataBundle == loadUserDataBundle(LateSlotFile)

NextForm ==
    \/ SelectDate
    \/ ApplyStandardPattern
    \/ HandleSave
    \/ UpdateStandardPattern
    \/ FormLoadUserDataBundle
    \/ Login
    \/ Logout
    \/ LoadInitialUserDataDone

SpecForm == Init /\ [][NextForm]_vars

\* The label of the n-th half hour after 08:00.
HalfHour(n) ==
    LET h == 8 + (n \div 2)
    IN  (IF h < 10 THEN "0" ELSE "") \o ToString(h) \o (IF n % 2 = 0 THEN ":00" ELSE ":30")

\* C12: TIME_SLOTS, and with it the grid of the form, is the 32 labels of
\* the half hours from 08:00 to 23:30, in ascending order, each once; "23:30"
\* is among them.
C12_TimeSlots ==
    selectedDate # <<>> =>
        /\ [i \in DOMAIN dailyData |-> dailyData[i].k] = TIME_SLOTS
        /\ Len(TIME_SLOTS) = 32
        /\ TIME_SLOTS = [n \in 1..32 |-> HalfHour(n - 1)]
        /\ \E i \in DOMAIN TIME_SLOTS : TIME_SLOTS[i] = "23:30"

\* The elements of an array, as a set.
Elements(arr) == {arr[i] : i \in DOMAIN arr}

\* C18: applying the standard pattern gives every slot of the grid that has
\* a pattern entry the medications it had and those of the entry, none lost
\* and none added twice, and leaves the values, the comments and the slots
\* without an entry as they were.
C18_ApplyPatternUnion ==
    [][applyStandardPattern =>
          /\ DOMAIN dailyData' = DOMAIN dailyData
          /\ \A i \in DOMAIN dailyData :
                LET before == dailyData[i]
                    after == dailyData'[i]
                IN  /\ after.k = before.k
                    /\ after.v.value = before.v.value
                    /\ after.v.comments = before.v.comments
                    /\ IF HasKey(standardPattern, before.k)
                       THEN /\ Elements(after.v.medications) =
                                   Elements(before.v.medications)
                                       \cup Elements(Get(standardPattern, before.k))
                            /\ \A m \in Elements(after.v.medications) :
                                   Count(after.v.medications, m)
                                       <= IF Count(before.v.medications, m) > 1
                                          THEN Count(before.v.medications, m) ELSE 1
                       ELSE after = before]_vars

\* The pattern was applied to a day whose 08:00 slot held "Medicina B" with
\* a value and a comment: the slot now holds both medications of the entry.
C18_Witness ==
    /\ lastOp = Op("applyStandardPattern", "2024-06-01", "")
    /\ selectedDate = <<"2024-06-01">>
    /\ dailyData[1] = Entry("08:00", Slot(Num(3), <<MedicinaB, MedicinaA>>, "tired"))
    /\ \E j \in DOMAIN standardPattern : standardPattern[j].k = "23:30"

-----------------------------------------------------------------------------
(* SpecLoad: startup, login and the initial load, whatever the bin holds   *)

\* A parsed document as loadInitialUserData reads it.
DocOf(parsed) ==
    [healthData |-> parsed.healthData.v, medications |-> parsed.medications.v,
     standardPattern |-> parsed.standardPattern.v, jsType |-> KindsOf(parsed)]

\* Documents of the bin: each property absent, null or of its declared type.
RemoteDocs ==
    {DocOf(ParsedBundle("object", hd, meds, pattern)) :
        hd \in {Undefined, JsonNull, Json("object", <<Entry("2024-06-01", ZeroDay)>>)},
        meds \in {Undefined, JsonNull, Json("array", <<Aspirin>>)},
        pattern \in {Undefined, JsonNull, Json("object", <<Entry("08:00", <<Aspirin>>)>>)}}

\* The application is mounted, with or without the stored flag, and the bin
\* does not exist or holds a document.
InitLoad ==
    /\ healthData = defaultHealthData
    /\ medications = defaultMedications
    /\ standardPattern = defaultStandardPattern
    /\ jsType = WellTyped
    /\ isAuthenticated \in BOOLEAN
    /\ isDataLoading = isAuthenticated
    /\ fetches = IF isAuthenticated THEN 1 ELSE 0
    /\ isSaving = FALSE
    /\ timeouts = {}
    /\ saveDataTimeout = "null"
    /\ puts = <<>>
    /\ remote \in {<<>>} \cup {<<doc>> : doc \in RemoteDocs}
    /\ sinceSave = DebounceMs
    /\ lastPut = <<>>
    /\ burst = NoBurst
    /\ lastOp = Op("mount", "", "")
    /\ selectedDate = <<>>
    /\ dailyData = <<>>
    /\ closure = medications
    /\ chart = <<>>
    /\ staleFetches = 0

NextLoad ==
    \/ Login
    \/ Logout
    \/ LoadInitialUserDataDone
    \/ SyncAddMedication

\* The GET settles: fetch resolves with a response or rejects.
SpecLoad == InitLoad /\ [][NextLoad]_vars /\ WF_vars(LoadInitialUserDataDone)

\* C13: a store without the stored flag is unauthenticated and becomes
\* authenticated only by a login with the password, which puts it in
\* DataLoading; a store with the flag starts in DataLoading; DataLoading has
\* a GET in flight and ends, whatever the GET does, when it settles, in
\* Ready; and DataLoading always ends.
C13_StartupMachine ==
    /\ [](isDataLoading => isAuthenticated /\ fetches > 0)
    /\ [][~isAuthenticated /\ isAuthenticated' =>
             lastOp' = Op("login", APP_PASSWORD, "") /\ isDataLoading']_vars
    /\ [][isDataLoading /\ ~isDataLoading' =>
             lastOp'.op = "loadInitialUserData" /\ isAuthenticated']_vars
    /\ [][\A outcome \in FetchOutcomes :
             loadInitialUserDataDone(outcome) => isAuthenticated' /\ ~isDataLoading']_vars
    /\ (isDataLoading ~> (isAuthenticated /\ ~isDataLoading))

\* The store has gone through DataLoading to Ready although the GET got no
\* response.
C13_Witness ==
    /\ lastOp = Op("loadInitialUserData", "transport", "resolved")
    /\ isAuthenticated
    /\ ~isDataLoading
    /\ fetches = 0

\* C15: loadDataFromBin fails, with an error that carries the status text,
\* when the GET returns a status that is neither ok nor 404, and returns
\* the default bundle without an error on 404.
C15_FetchFailsOnStatus ==
    lastOp.op = "loadInitialUserData" =>
        /\ lastOp.a = "status500" => lastOp.b = "rejected"
        /\ lastOp.a = "status404" => lastOp.b = "resolved" /\ Bundle = defaultUserDataBundle

\* The property of the document holds a value: it is there and is not null.
Present(doc, f) == doc.jsType[f] \notin {"undefined", "null"}

-----------------------------------------------------------------------------
(* SpecTurn: calls of the store issued in one event turn                   *)

\* addMedication(med) called by a consumer of the context that calls the
\* store again before the event ends: React has not rendered in between, so
\* the next call runs the handler that the last render defined.
AddMedicationSameTurn ==
    \E med \in Names :
        /\ Len(medications) < MaxCatalog
        /\ addMedicationCall(med)
        /\ UNCHANGED <<closure, chart>>

NextTurn ==
    \/ AddMedicationSameTurn
    \/ AddMedication
    \/ EditMedication
    \/ DeleteMedication
    \/ Login
    \/ Logout
    \/ LoadInitialUserDataDone

SpecTurn == Init /\ [][NextTurn]_vars

\* What deleteMedication(medToDelete) makes of a bundle.
AfterDelete(b, medToDelete) ==
    [b EXCEPT !.healthData = deleteHealthDataUpdater(@, medToDelete),
              !.standardPattern = deleteStandardPatternUpdater(@, medToDelete),
              !.medications = deleteMedicationsUpdater(@, medToDelete)]

\* C21: a mutation leaves the bundle that the mutation applied to the bundle
\* left by the mutation before it gives, also when the two are issued in one
\* event turn: addMedication(m) adds m if and only if the catalog it finds
\* lacks m, and a rename or removal acts on the bundle as it stands.
C21_CallOrder ==
    [][/\ lastOp'.op = "addMedication" =>
             Bundle' = [Bundle EXCEPT !.medications = AfterAdd(@, lastOp'.a)]
       /\ lastOp'.op = "editMedication" =>
             Bundle' = AfterEdit(Bundle, lastOp'.a, lastOp'.b)
       /\ lastOp'.op = "deleteMedication" =>
             Bundle' = AfterDelete(Bundle, lastOp'.a)]_vars

-----------------------------------------------------------------------------
(* SpecChart: DataDisplay over the store                                   *)

\* The tab "Gráfico" of the tracker is chosen for a date: DataDisplay takes
\* the place of the form.
showChart(date) ==
    /\ Ready
    /\ UNCHANGED <<healthData, medications, standardPattern, jsType, isAuthenticated,
                   isDataLoading, isSaving, fetches, puts, remote, staleFetches>>
    /\ chart' = <<DataDisplay(healthData, date)>>
    /\ closure' = medications'
    /\ FormUnmounted
    /\ NoSave
    /\ lastPut' = <<>>
    /\ lastOp' = Op("showChart", date, "")

\* Day records for the chart: slots with a number and every combination of
\* medications and comment, and a slot with both and no number; a day with
\* no number at all.
MixedDay ==
    << Entry("08:00", Slot(Num(5), <<Aspirin>>, "after breakfast")),
       Entry("08:30", Slot(Num(0), <<Aspirin, MedicinaA>>, "")),
       Entry("09:00", Slot(Num(7), <<>>, "headache")),
       Entry("09:30", Slot(Num(3), <<>>, "")),
       Entry("10:00", Slot(Null, <<Aspirin>>, "no reading")) >>
NumberlessDay ==
    << Entry("08:00", Slot(Null, <<Aspirin>>, "")),
       Entry("08:30", Slot(Null, <<>>, "headache")) >>

ChartDays == {MixedDay, NumberlessDay, ZeroDay}

ShowChart == \E date \in Dates : showChart(date)

ChartUpdateHealthData ==
    \E date \in Dates, data \in ChartDays : updateHealthData(date, data)

ChartDeleteMedication == deleteMedication(Aspirin)

NextChart ==
    \/ ShowChart
    \/ ChartUpdateHealthData
    \/ ChartDeleteMedication
    \/ Login
    \/ Logout
    \/ LoadInitialUserDataDone

SpecChart == Init /\ [][NextChart]_vars

\* The fills of the markers the chart on the screen draws at a time label.
Marks(time) ==
    {chart[1].dots[i].fill : i \in {k \in DOMAIN chart[1].dots : chart[1].dots[k].time = time}}
        \ {<<>>}

\* C25: in the chart of a day, a slot with a number has a violet marker if
\* and only if it has medications and a comment, a green one if and only if
\* it has medications and no comment, an orange one if and only if it has a
\* comment and no medications, and none if and only if it has neither; a
\* slot without a number has no marker.
C25_MarkerColour ==
    chart # <<>> =>
        LET date == chart[1].selectedDate
            daily == IF HasKey(healthData, date) THEN Get(healthData, date) ELSE <<>>
        IN  \A j \in DOMAIN daily :
                LET p == daily[j].v
                    marks == Marks(daily[j].k)
                    hasMeds == p.medications # <<>>
                    hasComment == p.comments # ""
                IN  IF p.value = Null
                    THEN marks = {}
                    ELSE /\ marks = {<<Violet>>} <=> hasMeds /\ hasComment
                         /\ marks = {<<Green>>} <=> hasMeds /\ ~hasComment
                         /\ marks = {<<Orange>>} <=> ~hasMeds /\ hasComment
                         /\ marks = {} <=> ~hasMeds /\ ~hasComment

\* The chart of a day is on the screen with a marker of each colour, a point
\* without a marker, and a slot that has medications, a comment and no number.
C25_Witness ==
    /\ chart # <<>>
    /\ chart[1].view = "chart"
    /\ {chart[1].dots[i].fill : i \in DOMAIN chart[1].dots}
           = {<<Violet>>, <<Green>>, <<Orange>>, <<>>}
    /\ Marks("09:30") = {}
    /\ Get(healthData, chart[1].selectedDate) = MixedDay

-----------------------------------------------------------------------------
(* SpecFrame: renaming and removing names that the data use                *)

FrameUpdateHealthData == \E data \in ChartDays : updateHealthData("2024-06-01", data)

NextFrame ==
    \/ FrameUpdateHealthData
    \/ UpdateStandardPattern
    \/ EditMedication
    \/ DeleteMedication
    \/ Login
    \/ Logout
    \/ LoadInitialUserDataDone

SpecFrame == Init /\ [][NextFrame]_vars

KeysInOrder(obj) == [i \in DOMAIN obj |-> obj[i].k]

\* The list is the list before with every oldMed turned into newMed: every
\* other element is where it was.
RenamedOnly(before, after, oldMed, newMed) ==
    /\ Len(after) = Len(before)
    /\ \A i \in DOMAIN before :
          after[i] = IF before[i] = oldMed THEN newMed ELSE before[i]

\* The list is the list before without medToDelete: the other elements are
\* all there, in the order they had.
RemovedOnly(before, after, medToDelete) ==
    after = SelectSeq(before, LAMBDA m : m # medToDelete)

\* The archive has the dates it had, in each day the slots it had, and in
\* each slot the value and the comment it had; Lists(before, after) holds of
\* the medications of every slot.
SameButNames(Lists(_, _)) ==
    /\ KeysInOrder(healthData') = KeysInOrder(healthData)
    /\ \A i \in DOMAIN healthData :
          /\ KeysInOrder(healthData'[i].v) = KeysInOrder(healthData[i].v)
          /\ \A j \in DOMAIN healthData[i].v :
                /\ healthData'[i].v[j].v.value = healthData[i].v[j].v.value
                /\ healthData'[i].v[j].v.comments = healthData[i].v[j].v.comments
                /\ Lists(healthData[i].v[j].v.medications,
                         healthData'[i].v[j].v.medications)

\* C26: deleteMedication(m) and editMedication(a, b) leave the dates, the
\* slots of every day and the value and comment of every slot as they were,
\* and in every slot and every pattern entry each other name occurs where it
\* did, in the order it did.
C26_OnlyNamesChange ==
    [][/\ lastOp'.op = "editMedication" =>
             LET Lists(before, after) == RenamedOnly(before, after, lastOp'.a, lastOp'.b)
             IN  /\ SameButNames(Lists)
                 /\ KeysInOrder(standardPattern') = KeysInOrder(standardPattern)
                 /\ \A i \in DOMAIN standardPattern :
                       Lists(standardPattern[i].v, standardPattern'[i].v)
       /\ lastOp'.op = "deleteMedication" =>
             LET Lists(before, after) == RemovedOnly(before, after, lastOp'.a)
             IN  /\ SameButNames(Lists)
                 /\ Keys(standardPattern') \subseteq Keys(standardPattern)
                 /\ \A i \in DOMAIN standardPattern :
                       LET rest == SelectSeq(standardPattern[i].v, LAMBDA m : m # lastOp'.a)
                       IN  IF HasKey(standardPattern', standardPattern[i].k)
                           THEN Get(standardPattern', standardPattern[i].k) = rest
                           ELSE rest = <<>>]_vars

\* A name has been renamed or removed that a slot with a number held next
\* to another name, in a day that has a slot with a number and a comment,
\* while a pattern is stored.
C26_Witness ==
    /\ lastOp.op \in {"editMedication", "deleteMedication"}
    /\ lastOp.a = Aspirin
    /\ HasKey(healthData, "2024-06-01")
    /\ \E j \in DOMAIN Get(healthData, "2024-06-01") :
          LET p == Get(healthData, "2024-06-01")[j].v
          IN  /\ p.value = Num(0)
              /\ p.medications \in {<<MedicinaA>>, <<MedicinaB, MedicinaA>>, <<MedicinaA, MedicinaA>>}
    /\ \E j \in DOMAIN Get(healthData, "2024-06-01") :
          LET p == Get(healthData, "2024-06-01")[j].v
          IN  p.value = Num(5) /\ p.comments = "after breakfast"
    /\ standardPattern # <<>>

-----------------------------------------------------------------------------
(* SpecStrict: the development build, where React.StrictMode runs the      *)
(* effects of a mounting component twice                                   *)

\* The document of a bin that a session has saved to.
SavedDoc ==
    DocOf(ParsedBundle("object",
                       Json("object", <<Entry("2024-06-01", ZeroDay)>>),
                       Json("array", <<Aspirin>>),
                       Json("object", <<Entry("08:00", <<Aspirin>>)>>)))

\* The application is mounted under <React.StrictMode>: with the stored flag
\* the mount effect of AppProvider calls loadInitialUserData() once in a
\* production build and twice in a development build, and each call issues
\* its GET.
InitStrict ==
    /\ healthData = defaultHealthData
    /\ medications = defaultMedications
    /\ standardPattern = defaultStandardPattern
    /\ jsType = WellTyped
    /\ isAuthenticated \in BOOLEAN
    /\ isDataLoading = isAuthenticated
    /\ fetches \in IF isAuthenticated THEN {1, 2} ELSE {0}
    /\ isSaving = FALSE
    /\ timeouts = {}
    /\ saveDataTimeout = "null"
    /\ puts = <<>>
    /\ remote \in {<<>>, <<SavedDoc>>}
    /\ sinceSave = DebounceMs
    /\ lastPut = <<>>
    /\ burst = NoBurst
    /\ lastOp = Op("mount", "", "")
    /\ selectedDate = <<>>
    /\ dailyData = <<>>
    /\ closure = medications
    /\ chart = <<>>
    /\ staleFetches = 0

NextStrict ==
    \/ Login
    \/ Logout
    \/ LoadInitialUserDataDone
    \/ SyncAddMedication
    \/ SyncDeleteMedication

SpecStrict == InitStrict /\ [][NextStrict]_vars

\* C27: while the store is unauthenticated the archive, the catalog and the
\* pattern are the defaults, whatever has happened since the logout.
C27_DefaultsWhileLoggedOut ==
    ~isAuthenticated =>
        /\ healthData = defaultHealthData
        /\ medications = defaultMedications
        /\ standardPattern = defaultStandardPattern

\* C29: once the GET of the latest login has settled, a GET issued before
\* the last logout that settles leaves the archive, the catalog and the
\* pattern as that login's GET left them.
C29_LatestFetchWins ==
    [][(/\ isAuthenticated
        /\ ~isDataLoading
        /\ fetches = staleFetches
        /\ lastOp = Op("loadInitialUserData", "document", "resolved")
        /\ staleFetches' < staleFetches)
          => UNCHANGED <<healthData, medications, standardPattern>>]_vars

-----------------------------------------------------------------------------
(* SpecIntegrity: the names the data use and the names of the catalog       *)

\* A file whose archive uses a name that its catalog does not have.
DanglingFile ==
    ParsedBundle("object",
                 Json("object", <<Entry("2024-06-02", MedDay(Aspirin))>>),
                 Json("array", <<MedicinaA>>),
                 Json("object", <<>>))

IntegrityFiles == {RepeatedFile, DanglingFile}

\* A document with an archive that uses a name, and without a catalog.
CatalogLessDoc ==
    DocOf(ParsedBundle("object", Json("object", <<Entry("2024-06-01", MedDay(Aspirin))>>),
                       Undefined, Json("object", <<>>)))

\* The application is mounted, with or without the stored flag; the bin
\* does not exist, or holds a document the store wrote or one it did not.
InitIntegrity ==
    /\ healthData = defaultHealthData
    /\ medications = defaultMedications
    /\ standardPattern = defaultStandardPattern
    /\ jsType = WellTyped
    /\ isAuthenticated \in BOOLEAN
    /\ isDataLoading = isAuthenticated
    /\ fetches = IF isAuthenticated THEN 1 ELSE 0
    /\ isSaving = FALSE
    /\ timeouts = {}
    /\ saveDataTimeout = "null"
    /\ puts = <<>>
    /\ remote \in {<<>>, <<SavedDoc>>, <<CatalogLessDoc>>}
    /\ sinceSave = DebounceMs
    /\ lastPut = <<>>
    /\ burst = NoBurst
    /\ lastOp = Op("mount", "", "")
    /\ selectedDate = <<>>
    /\ dailyData = <<>>
    /\ closure = medications
    /\ chart = <<>>
    /\ staleFetches = 0

IntegrityLoadUserDataBundle == \E bundle \in IntegrityFiles : loadUserDataBundle(bundle)

NextIntegrity ==
    \/ UpdateHealthData
    \/ UpdateStandardPattern
    \/ AddMedication
    \/ EditMedication
    \/ DeleteMedication
    \/ IntegrityLoadUserDataBundle
    \/ Login
    \/ Logout
    \/ LoadInitialUserDataDone

SpecIntegrity == InitIntegrity /\ [][NextIntegrity]_vars

\* The names in the medication lists of a day record, of an archive, of a
\* pattern.
NamesOfDay(daily) == UNION {Elements(daily[j].v.medications) : j \in DOMAIN daily}
NamesOfArchive(hd) == UNION {NamesOfDay(hd[i].v) : i \in DOMAIN hd}
NamesOfPattern(pattern) == UNION {Elements(pattern[i].v) : i \in DOMAIN pattern}

\* Every name that an archive or a pattern uses is in the catalog.
NoDanglingName(hd, meds, pattern) ==
    NamesOfArchive(hd) \cup NamesOfPattern(pattern) \subseteq Elements(meds)

\* The step, if it is updateHealthData or updateStandardPattern, was given
\* names of the catalog only.
GivenCatalogNames ==
    /\ lastOp'.op = "updateHealthData" =>
          NamesOfDay(Get(healthData', lastOp'.a)) \subseteq Elements(medications)
    /\ lastOp'.op = "updateStandardPattern" =>
          NamesOfPattern(standardPattern') \subseteq Elements(medications)

\* The step, if it installs a file or a document of the bin, installs one
\* in which every name used is in the catalog of that file or document.
GivenConsistentBundles ==
    /\ \A bundle \in IntegrityFiles :
          loadUserDataBundle(bundle) =>
              NoDanglingName(bundle.healthData.v, bundle.medications.v, bundle.standardPattern.v)
    /\ lastOp' = Op("loadInitialUserData", "document", "resolved") =>
          /\ \A f \in DOMAIN remote[1].jsType : remote[1].jsType[f] \notin FalsyKinds
          /\ NoDanglingName(remote[1].healthData, remote[1].medications,
                            remote[1].standardPattern)

\* The statement without the condition on files and documents: every step
\* in which updateHealthData and updateStandardPattern are given names of
\* the catalog keeps every name in use in the catalog.
C30_AnyOperation ==
    [][(NoDanglingName(healthData, medications, standardPattern) /\ GivenCatalogNames)
          => NoDanglingName(healthData', medications', standardPattern')]_vars

\* C30: every name used in a slot of a day or in a pattern entry is in the
\* catalog, and stays there through every step of the store in which
\* updateHealthData and updateStandardPattern are given names of the catalog
\* and a file or document installed uses names of its own catalog only: a
\* rename or a removal leaves no name behind.
C30_NoDanglingNames ==
    /\ (lastOp.op = "mount" => NoDanglingName(healthData, medications, standardPattern))
    /\ [][(/\ NoDanglingName(healthData, medications, standardPattern)
           /\ GivenCatalogNames
           /\ GivenConsistentBundles)
             => NoDanglingName(healthData', medications', standardPattern')]_vars

\* A name that the pattern used next to an archive with a name of its own
\* has been renamed, and every name in use is in the catalog.
C30_Witness ==
    /\ lastOp.op = "editMedication"
    /\ lastOp.b = Aspirin
    /\ Aspirin \in NamesOfPattern(standardPattern)
    /\ NamesOfArchive(healthData) # {}
    /\ NoDanglingName(healthData, medications, standardPattern)

====
